---- MODULE Spec2Model ----
(***************************************************************************)
(* Playback state machine of the Sprites component (src/src/Sprites.tsx).  *)
(*                                                                         *)
(* The component owns one Animated.Value (animatedValue, the "progress")   *)
(* and drives it with Animated.timing / Animated.loop.  The operators      *)
(* setValue, stopAnimation, animate, animationStop and debouncedOnEnd      *)
(* follow the documented behaviour of React Native's Animated library at   *)
(* the places where Sprites.tsx calls it: stopping an animation invokes    *)
(* its start() completion callback with {finished: false}; a natural end   *)
(* invokes it with {finished: true}.                                       *)
(*                                                                         *)
(* Progress is discretised: one tick advances a run by one frame.          *)
(***************************************************************************)
EXTENDS Integers, Sequences, FiniteSets, TLC

\* ---------------------------------------------------------------- bounds
MaxPlays == 3      \* successful play() calls (runs ever started)
MaxCalls == 1      \* stop() and reset() calls, together
MaxFrames == 3     \* frames of the longest animation
MaxRow == 2        \* largest row generateFrames is applied to
MaxColumns == 3    \* largest totalColumns generateFrames is applied to
PairPlays == 1     \* play() calls on each of two instances side by side
ConfigPlays == 1   \* play() calls on a component with an invalid grid
PropsPlays == 1    \* play() calls on a component whose props change

\* ------------------------------------------------------- configuration
columns == 3

\* the animations prop: two playable animations and one with a single frame
animations ==
  [down |-> [row |-> 0, startFrame |-> 0, endFrame |-> 2],
   left |-> [row |-> 1, startFrame |-> 0, endFrame |-> 1],
   run  |-> [row |-> 0, startFrame |-> 0, endFrame |-> 0]]

\* the sheet image's own size, as the platform reports it
NaturalSize == [width |-> 100, height |-> 50]

\* the props of the example application: a bundled 3 x 4 sheet
DefaultProps ==
  [columns |-> columns, rows |-> 4, width |-> 0, height |-> 0,
   frameWidth |-> 0, frameHeight |-> 0, offsetX |-> 0, offsetY |-> 0,
   source |-> "local", animations |-> animations]

\* props a component may be rendered with (0: the prop is omitted)
GridInputs   == {<<3, 2>>, <<3, 1>>}                \* columns, rows
SheetInputs  == {<<0, 0>>, <<90, 60>>, <<90, 0>>}   \* width, height
FrameInputs  == {<<0, 0>>, <<32, 16>>}              \* frameWidth, frameHeight
OffsetInputs == {<<0, 0>>, <<5, 3>>}                \* offsetX, offsetY
SourceInputs == {"local", "remote", "none"}         \* require(), {uri}, neither

PropsInputs ==
  {[columns |-> g[1], rows |-> g[2], width |-> s[1], height |-> s[2],
    frameWidth |-> f[1], frameHeight |-> f[2], offsetX |-> o[1], offsetY |-> o[2],
    source |-> src, animations |-> animations] :
     g \in GridInputs, s \in SheetInputs, f \in FrameInputs,
     o \in OffsetInputs, src \in SourceInputs}

\* definitions the animations prop may be replaced with: the example's;
\* "down" moved to the second row and shortened, "left" cut to one frame;
\* "left" and "run" removed
DefsInputs ==
  {animations,
   [down |-> [row |-> 1, startFrame |-> 0, endFrame |-> 1],
    left |-> [row |-> 0, startFrame |-> 1, endFrame |-> 1],
    run  |-> [row |-> 0, startFrame |-> 0, endFrame |-> 0]],
   [down |-> [row |-> 0, startFrame |-> 0, endFrame |-> 2]]}

\* props a mounted component may be rendered with again
PropsChanges ==
  {[columns |-> columns, rows |-> r, width |-> s[1], height |-> s[2],
    frameWidth |-> 0, frameHeight |-> 0, offsetX |-> 5, offsetY |-> 3,
    source |-> "local", animations |-> d] :
     r \in {4, 1}, s \in {<<0, 0>>, <<90, 60>>}, d \in DefsInputs}

\* props that register a single animation, "clip", in any row of a valid
\* grid and over any range of frames, on a sheet with offsets
ClipInputs ==
  {[columns |-> c, rows |-> r, width |-> 0, height |-> 0,
    frameWidth |-> 0, frameHeight |-> 0, offsetX |-> 5, offsetY |-> 3,
    source |-> "local",
    animations |-> [clip |-> [row |-> row, startFrame |-> startFrame,
                              endFrame |-> endFrame]]] :
     c \in 2..MaxColumns, r \in 1..(MaxRow + 1), row \in 0..MaxRow,
     startFrame \in 0..MaxFrames, endFrame \in 0..MaxFrames}

\* grids the component warns about: one column, no row, or both
ConfigGridInputs == {<<1, 2>>, <<3, 0>>, <<1, 0>>}

ConfigInputs ==
  {[columns |-> g[1], rows |-> g[2], width |-> s[1], height |-> s[2],
    frameWidth |-> 0, frameHeight |-> 0, offsetX |-> o[1], offsetY |-> o[2],
    source |-> src, animations |-> animations] :
     g \in ConfigGridInputs, s \in SheetInputs, o \in OffsetInputs,
     src \in SourceInputs}

\* names a caller may pass as PlayOptions.type ("ghost" is not defined)
TypeInputs == DOMAIN animations \cup {"ghost"}

\* useState<string | null>(null)
NoAnimation == "null"

\* const DEFAULT_FPS = 24
DEFAULT_FPS == 24

\* PlayOptions.fps: omitted (the empty tuple) or given
FpsInputs == {<<>>, <<12>>}

\* what the caller's onFinish does: nothing, or play another animation
NoChain == "none"
ChainInputs == {NoChain, "left"}

VARIABLES
  animationType,   \* useState animationType
  animatedValue,   \* current value of the Animated.Value (progress)
  animation,       \* the Animated.Value's current animation: 0 or a run id
  runs,            \* every run started by play(), by id
  isNative,        \* the Animated.Value has been made native
  nativeDriver,    \* the platform provides the native animated module
  pending,         \* stopAnimation callbacks requested from the native side
  calls,           \* stop()/reset() calls made with a callback
  cbCount,         \* stop()/reset() callbacks invoked
  mounted,         \* the component instance is mounted
  lastOp,          \* the operation that produced this state
  events,          \* what happened inside that operation, in order
  props,           \* the props the component was rendered with
  DEV,             \* the build's __DEV__ flag
  imageDimensions, \* useState imageDimensions
  request,         \* progress of the dimension effect and of Image.getSize
  interpolationRanges, \* the memoised curve of every registered animation
  diag,            \* console.warn / console.error output of the last step
  probe,           \* last application of a function, with its inputs
  peer             \* the session of a second instance of the component

\* what rendering reads and produces
renderVars == <<props, DEV, imageDimensions, request, interpolationRanges, diag>>

vars == <<animationType, animatedValue, animation, runs, isNative,
          nativeDriver, pending, calls, cbCount, mounted,
          lastOp, events, renderVars, probe, peer>>

\* ------------------------------------------------------ pure functions

\* JavaScript numbers that are not integers are kept as exact fractions in
\* lowest terms with a positive denominator
RECURSIVE GCD(_, _)
GCD(a, b) == IF b = 0 THEN a ELSE GCD(b, a % b)

Rat(n, d) ==
  LET g == GCD(IF n < 0 THEN -n ELSE n, d)
  IN  [num |-> n \div g, den |-> d \div g]

RatOf(n) == [num |-> n, den |-> 1]
RatMul(a, b) == Rat(a.num * b.num, a.den * b.den)
RatSub(a, b) == Rat(a.num * b.den - b.num * a.den, a.den * b.den)
RatNeg(a) == [num |-> -a.num, den |-> a.den]

RatAdd(a, b) == Rat(a.num * b.den + b.num * a.den, a.den * b.den)
RatLess(a, b) == a.num * b.den < b.num * a.den
RatLeq(a, b) == a.num * b.den <= b.num * a.den

\* a / b; a division by 0 gives Infinity, -Infinity or NaN, kept as 1/0,
\* -1/0 and 0/0
RatDiv(a, b) ==
  IF b.num = 0
    THEN [num |-> IF a.num > 0 THEN 1 ELSE IF a.num < 0 THEN -1 ELSE 0, den |-> 0]
  ELSE IF b.num > 0 THEN Rat(a.num * b.den, a.den * b.num)
  ELSE Rat(-(a.num * b.den), -(a.den * b.num))

\* a % b of JavaScript: the remainder has the sign of the dividend
jsRem(a, b) ==
  LET m == IF b < 0 THEN -b ELSE b
  IN  IF a >= 0 THEN a % m ELSE -((-a) % m)

\* generateFrames keeping every frame inside the row it starts in
generateFramesWrapped(row, startFrame, endFrame, totalColumns) ==
  LET baseFrame == row * totalColumns
  IN  [k \in 1..(IF endFrame >= startFrame THEN endFrame - startFrame + 1 ELSE 0)
         |-> baseFrame + ((startFrame + k - 1) % totalColumns)]

\* generateFrames with a loop that stops before endFrame
generateFramesExclusive(row, startFrame, endFrame, totalColumns) ==
  LET baseFrame == row * totalColumns
  IN  [k \in 1..(IF endFrame > startFrame THEN endFrame - startFrame ELSE 0)
         |-> baseFrame + (startFrame + k - 1)]

\* generateFrames(row, startFrame, endFrame, totalColumns)
generateFrames(row, startFrame, endFrame, totalColumns) ==
  LET baseFrame == row * totalColumns
  IN  [k \in 1..(IF endFrame >= startFrame THEN endFrame - startFrame + 1 ELSE 0)
         |-> baseFrame + (startFrame + k - 1)]

\* the frames play() computes for a defined animation
framesOf(type) ==
  generateFrames(animations[type].row, animations[type].startFrame,
                 animations[type].endFrame, columns)

\* play() without its second guard
playableIfDefined(type) == type \in DOMAIN animations

\* the two guards of play(): the name is defined and has at least 2 frames
playable(type) ==
  /\ type \in DOMAIN animations
  /\ Len(framesOf(type)) >= 2


\* ------------------------------------------------- geometry and curves

\* an entry of the console output
Diag(level, msg, key, n) == [level |-> level, msg |-> msg, key |-> key, n |-> n]

\* a warning for a grid without rows only: one column passes unnoticed
gridWarningRowsOnly(p) ==
  IF p.rows < 1 THEN {Diag("warn", "grid", "", 0)} ELSE {}

\* the warning of every render for a grid with columns <= 1 or rows < 1
gridWarning(p) ==
  IF p.columns <= 1 \/ p.rows < 1 THEN {Diag("warn", "grid", "", 0)} ELSE {}

\* computedFrameWidth preferring the resolved width to the supplied one
computedFrameWidthResolvedFirst(p, dims) ==
  IF p.frameWidth # 0 THEN RatOf(p.frameWidth)
  ELSE IF dims.width # 0 THEN RatDiv(RatOf(dims.width), RatOf(p.columns))
  ELSE RatDiv(RatOf(p.width), RatOf(p.columns))

\* computedFrameWidth (a number prop that is omitted is 0: both are falsy)
computedFrameWidth(p, dims) ==
  IF p.frameWidth # 0 THEN RatOf(p.frameWidth)
  ELSE IF p.width # 0 THEN RatDiv(RatOf(p.width), RatOf(p.columns))
  ELSE RatDiv(RatOf(dims.width), RatOf(p.columns))

\* computedFrameHeight
computedFrameHeight(p, dims) ==
  IF p.frameHeight # 0 THEN RatOf(p.frameHeight)
  ELSE IF p.height # 0 THEN RatDiv(RatOf(p.height), RatOf(p.rows))
  ELSE RatDiv(RatOf(dims.height), RatOf(p.rows))

\* the values getFrameCoords closes over
geometry(p, dims) ==
  [columns |-> p.columns, rows |-> p.rows,
   frameWidth |-> computedFrameWidth(p, dims),
   frameHeight |-> computedFrameHeight(p, dims),
   offsetX |-> p.offsetX, offsetY |-> p.offsetY]

\* getFrameCoords with the column and the row of a frame exchanged
getFrameCoordsTransposed(frameIndex, g, dev) ==
  LET totalFrames == g.columns * g.rows
  IN  IF frameIndex < 0 \/ frameIndex >= totalFrames
        THEN [translateX |-> RatOf(0), translateY |-> RatOf(0),
              diag |-> IF dev THEN {Diag("warn", "bounds", "", frameIndex)} ELSE {}]
        ELSE LET column == frameIndex \div g.columns
                 row    == jsRem(frameIndex, g.columns)
             IN  [translateX |-> RatSub(RatMul(RatOf(-column), g.frameWidth),
                                        RatOf(g.offsetX)),
                  translateY |-> RatSub(RatMul(RatOf(-row), g.frameHeight),
                                        RatOf(g.offsetY)),
                  diag |-> {}]

\* getFrameCoords applying the offsets to an index that is out of bounds
getFrameCoordsOffsetOutside(frameIndex, g, dev) ==
  LET totalFrames == g.columns * g.rows
  IN  IF frameIndex < 0 \/ frameIndex >= totalFrames
        THEN [translateX |-> RatOf(-g.offsetX), translateY |-> RatOf(-g.offsetY),
              diag |-> IF dev THEN {Diag("warn", "bounds", "", frameIndex)} ELSE {}]
        ELSE LET column == jsRem(frameIndex, g.columns)
                 row    == frameIndex \div g.columns
             IN  [translateX |-> RatSub(RatMul(RatOf(-column), g.frameWidth),
                                        RatOf(g.offsetX)),
                  translateY |-> RatSub(RatMul(RatOf(-row), g.frameHeight),
                                        RatOf(g.offsetY)),
                  diag |-> {}]

\* getFrameCoords(frameIndex), with the warning it prints
getFrameCoords(frameIndex, g, dev) ==
  LET totalFrames == g.columns * g.rows
  IN  IF frameIndex < 0 \/ frameIndex >= totalFrames
        THEN [translateX |-> RatOf(0), translateY |-> RatOf(0),
              diag |-> IF dev THEN {Diag("warn", "bounds", "", frameIndex)} ELSE {}]
        ELSE LET column == jsRem(frameIndex, g.columns)
                 row    == frameIndex \div g.columns
             IN  [translateX |-> RatSub(RatMul(RatOf(-column), g.frameWidth),
                                        RatOf(g.offsetX)),
                  translateY |-> RatSub(RatMul(RatOf(-row), g.frameHeight),
                                        RatOf(g.offsetY)),
                  diag |-> {}]

\* a curve with a single keyframe for every frame: a ramp, not steps
curveOfRamp(frames, g, dev) ==
  LET n == Len(frames)
      inputRange == [j \in 1..n |-> j - 1]
      coords(j)  == getFrameCoords(frames[j], g, dev)
  IN  [translateX |-> [input  |-> inputRange,
                       output |-> [j \in 1..n |-> coords(j).translateX]],
       translateY |-> [input  |-> inputRange,
                       output |-> [j \in 1..n |-> coords(j).translateY]]]

\* the step curve of one animation: every frame contributes the inputs
\* index, index + 1 and its coordinates twice
curveOf(frames, g, dev) ==
  LET n == Len(frames)
      inputRange == [j \in 1..(2 * n) |-> j \div 2]
      coords(j)  == getFrameCoords(frames[(j + 1) \div 2], g, dev)
  IN  [translateX |-> [input  |-> inputRange,
                       output |-> [j \in 1..(2 * n) |-> coords(j).translateX]],
       translateY |-> [input  |-> inputRange,
                       output |-> [j \in 1..(2 * n) |-> coords(j).translateY]]]

\* interpolationRanges registering an animation of a single frame as well
computeInterpolationRangesFromOne(p, g, dev) ==
  LET framesFor(key) == generateFrames(p.animations[key].row,
                                       p.animations[key].startFrame,
                                       p.animations[key].endFrame, p.columns)
      kept == {key \in DOMAIN p.animations : ~(Len(framesFor(key)) < 1)}
  IN  [ranges |-> [key \in kept |-> curveOf(framesFor(key), g, dev)],
       diag |-> {Diag("warn", "frames", key, Len(framesFor(key))) :
                    key \in DOMAIN p.animations \ kept}
                \cup UNION {UNION {getFrameCoords(framesFor(key)[i], g, dev).diag :
                                     i \in DOMAIN framesFor(key)} : key \in kept}]

\* the useMemo that computes interpolationRanges, with the warnings it prints
computeInterpolationRanges(p, g, dev) ==
  LET framesFor(key) == generateFrames(p.animations[key].row,
                                       p.animations[key].startFrame,
                                       p.animations[key].endFrame, p.columns)
      kept == {key \in DOMAIN p.animations : ~(Len(framesFor(key)) < 2)}
  IN  [ranges |-> [key \in kept |-> curveOf(framesFor(key), g, dev)],
       diag |-> {Diag("warn", "frames", key, Len(framesFor(key))) :
                    key \in DOMAIN p.animations \ kept}
                \cup UNION {UNION {getFrameCoords(framesFor(key)[i], g, dev).diag :
                                     i \in DOMAIN framesFor(key)} : key \in kept}]

\* an interpolation of animatedValue; the empty one stands for the constant
\* defaultTranslateX / defaultTranslateY, an Animated.Value(0)
DefaultTranslate == [input |-> <<>>, output |-> <<>>]

\* currentInterpolation
currentInterpolation(type, ranges) ==
  IF type = NoAnimation \/ type \notin DOMAIN ranges
    THEN [translateX |-> DefaultTranslate, translateY |-> DefaultTranslate]
    ELSE LET pick(axis) == IF Len(axis.input) >= 2 /\ Len(axis.output) >= 2
                             THEN axis ELSE DefaultTranslate
         IN  [translateX |-> pick(ranges[type].translateX),
              translateY |-> pick(ranges[type].translateY)]

\* a search that takes the first segment whose upper end is above the input
findRangeAbove(input, inputRange) ==
  LET hits == {i \in 2..(Len(inputRange) - 1) : RatLess(input, RatOf(inputRange[i]))}
  IN  IF hits = {} THEN Len(inputRange) - 1
      ELSE (CHOOSE i \in hits : \A j \in hits : i <= j) - 1

\* the segment of inputRange an input is interpolated in: the first one
\* whose upper end is not below the input, else the last one
findRange(input, inputRange) ==
  LET hits == {i \in 2..(Len(inputRange) - 1) : RatLeq(input, RatOf(inputRange[i]))}
  IN  IF hits = {} THEN Len(inputRange) - 1
      ELSE (CHOOSE i \in hits : \A j \in hits : i <= j) - 1

\* animatedValue.interpolate({inputRange, outputRange, extrapolate: 'clamp'})
\* evaluated at input
interpolate(input, inputRange, outputRange) ==
  LET k      == findRange(input, inputRange)
      inMin  == RatOf(inputRange[k])
      inMax  == RatOf(inputRange[k + 1])
      outMin == outputRange[k]
      outMax == outputRange[k + 1]
      lo     == IF RatLess(input, inMin) THEN inMin ELSE input
      res    == IF RatLess(inMax, lo) THEN inMax ELSE lo
  IN  IF outMin = outMax THEN outMin
      ELSE IF inMin = inMax
        THEN (IF RatLeq(input, inMin) THEN outMin ELSE outMax)
      ELSE RatAdd(outMin, RatDiv(RatMul(RatSub(res, inMin), RatSub(outMax, outMin)),
                                 RatSub(inMax, inMin)))

\* the translation the image is drawn with at a given value of animatedValue
transform(value, type, ranges) ==
  LET ci == currentInterpolation(type, ranges)
      at(axis) == IF axis = DefaultTranslate THEN RatOf(0)
                  ELSE interpolate(value, axis.input, axis.output)
  IN  [translateX |-> at(ci.translateX), translateY |-> at(ci.translateY)]

\* whether the sheet image is rendered inside the container
imageRendered(dims) == dims.width > 0 /\ dims.height > 0

\* the effect that finds the sheet's dimensions, for a local asset that
\* does or does not resolve
dimensionEffect(p, dims, assetOk, natural) ==
  IF p.width # 0 /\ p.height # 0
    THEN [dims |-> [width |-> p.width, height |-> p.height],
          request |-> "supplied", diag |-> {}]
  ELSE IF p.source = "local"
    THEN IF assetOk
           THEN [dims |-> natural, request |-> "resolved", diag |-> {}]
           ELSE [dims |-> dims, request |-> "failed",
                 diag |-> {Diag("error", "dimensions", "local", 0)}]
  ELSE IF p.source = "remote"
    THEN [dims |-> dims, request |-> "pending", diag |-> {}]
  ELSE [dims |-> dims, request |-> "invalid",
        diag |-> {Diag("error", "source", "", 0)}]

\* a render after the state changed: interpolationRanges is recomputed
\* when what it depends on has changed
rerender(p, oldDims, newDims, dev, oldRanges) ==
  LET r == IF geometry(p, newDims) = geometry(p, oldDims)
             THEN [ranges |-> oldRanges, diag |-> {}]
             ELSE computeInterpolationRanges(p, geometry(p, newDims), dev)
  IN  [r EXCEPT !.diag = @ \cup gridWarning(p)]

\* what the interpolationRanges memo depends on: animations, columns and
\* getFrameCoords, itself remade when the geometry changes
memoDeps(p, dims) == <<p.animations, p.columns, geometry(p, dims)>>

\* a render with new props whose memo overlooks a change of the geometry
propsRenderNoCoords(oldP, newP, dims, dev, oldRanges) ==
  LET r == IF <<newP.animations, newP.columns>> = <<oldP.animations, oldP.columns>>
             THEN [ranges |-> oldRanges, diag |-> {}]
             ELSE computeInterpolationRanges(newP, geometry(newP, dims), dev)
  IN  [r EXCEPT !.diag = @ \cup gridWarning(newP)]

\* a render with new props: interpolationRanges is recomputed when what it
\* depends on has changed
propsRender(oldP, newP, dims, dev, oldRanges) ==
  LET r == IF memoDeps(newP, dims) = memoDeps(oldP, dims)
             THEN [ranges |-> oldRanges, diag |-> {}]
             ELSE computeInterpolationRanges(newP, geometry(newP, dims), dev)
  IN  [r EXCEPT !.diag = @ \cup gridWarning(newP)]

\* --------------------------------------------- the session as a record

Cur ==
  [animationType |-> animationType, value |-> animatedValue,
   animation |-> animation, runs |-> runs, isNative |-> isNative,
   nativeDriver |-> nativeDriver, pending |-> pending, cbCount |-> cbCount,
   events |-> <<>>]

\* an entry of the event list, with the session as it is at that moment
emit(s, e, r) ==
  [s EXCEPT !.events = Append(@, [e |-> e, run |-> r, value |-> s.value])]

RECURSIVE setValue(_, _)
RECURSIVE play(_, _, _, _, _, _)

\* the caller's onFinish: it is invoked, and may itself call play()
onFinish(s, r) ==
  LET s1 == emit([s EXCEPT !.runs[r].finished = @ + 1], "onFinish", r)
  IN  IF s.runs[r].chain = NoChain THEN s1
      ELSE play(s1, s.runs[r].chain, <<>>, FALSE, FALSE, NoChain)

\* a completion callback that forgets resetAfterFinish
startCallbackNoReset(s, r) == onFinish(s, r)

\* a completion callback that invokes onFinish in the resetAfterFinish
\* branch and once more after it
startCallbackFinishInBranch(s, r) ==
  IF s.runs[r].resetAfterFinish
    THEN onFinish(onFinish(setValue(s, 0), r), r)
    ELSE onFinish(s, r)

\* the completion callback play() passes to animation.start()
startCallback(s, r) ==
  LET s1 == IF s.runs[r].resetAfterFinish THEN setValue(s, 0) ELSE s
  IN  onFinish(s1, r)

\* an end handler that has a completion callback for looping runs too
animateEndAlways(s, r) == startCallback([s EXCEPT !.animation = 0], r)

\* Animated.Value.animate's end handler: clears the value's animation and
\* calls the start() callback if there is one (a looping run has none)
animateEnd(s, r) ==
  LET s1 == [s EXCEPT !.animation = 0]
  IN  IF s.runs[r].loop THEN s1 ELSE startCallback(s1, r)

\* the animation's end handler fires at most once
debouncedOnEnd(s, r, finished) ==
  IF s.runs[r].onEnd
    THEN animateEnd([s EXCEPT !.runs[r].onEnd = FALSE,
                              !.runs[r].result =
                                 IF finished THEN "finished" ELSE "stopped"], r)
    ELSE s

\* stopping a timing animation: it no longer ticks, and ends unfinished
animationStop(s, r) ==
  debouncedOnEnd(emit([s EXCEPT !.runs[r].active = FALSE], "cancel", r), r, FALSE)

\* animatedValue.setValue(v)
setValue(s, v) ==
  LET s1 == IF s.animation # 0
              THEN [animationStop(s, s.animation) EXCEPT !.animation = 0]
              ELSE s
  IN  emit([s1 EXCEPT !.value = v], "setValue", 0)

\* the callback handed to stop()/reset() is invoked
invokeCb(s, kind) ==
  emit([s EXCEPT !.cbCount[kind] = @ + 1], kind, 0)

\* animatedValue.stopAnimation(cb)
stopAnimation(s, hasCb, kind) ==
  LET s1 == IF s.animation # 0 THEN animationStop(s, s.animation) ELSE s
      s2 == [s1 EXCEPT !.animation = 0]
  IN  IF ~hasCb THEN s2
      ELSE IF s2.isNative THEN [s2 EXCEPT !.pending = Append(@, kind)]
      ELSE invokeCb(s2, kind)

\* Animated.Value.animate(animation, callback), reached from
\* Animated.timing(...).start(cb) and Animated.loop(...).start()
animate(s, type, duration, loop, resetAfterFinish, chain) ==
  LET s1 == IF s.animation # 0 THEN animationStop(s, s.animation) ELSE s
      r  == Len(s1.runs) + 1
      new == [type |-> type, toValue |-> Len(framesOf(type)), loop |-> loop,
              resetAfterFinish |-> resetAfterFinish, chain |-> chain,
              pos |-> 0, active |-> TRUE, onEnd |-> TRUE,
              result |-> "running", endedBy |-> "", finished |-> 0]
  IN  [s1 EXCEPT !.runs = Append(@, new), !.animation = r,
                 !.isNative = @ \/ s.nativeDriver,
                 !.events = Append(@, [e |-> "start", run |-> r,
                                       value |-> s1.value,
                                       duration |-> duration])]

\* const duration = (frames.length / fps) * 1000
duration(frames, fps) == RatMul(RatDiv(RatOf(Len(frames)), RatOf(fps)), RatOf(1000))

\* the rates play() runs at
FpsValues == {DEFAULT_FPS} \cup {fps[1] : fps \in FpsInputs \ {<<>>}}

\* the duration of every playable animation at every rate
durations ==
  [type \in {t \in TypeInputs : playable(t)}, f \in FpsValues |->
     duration(framesOf(type), f)]

\* play({type, fps, loop, resetAfterFinish, onFinish})
play(s, type, fps, loop, resetAfterFinish, chain) ==
  IF ~playable(type)
    THEN emit(s, "error", 0)
    ELSE LET s1 == [s EXCEPT !.animationType = type]
             s2 == setValue(s1, 0)
             f  == IF fps = <<>> THEN DEFAULT_FPS ELSE fps[1]
         IN  animate(s2, type, durations[type, f],
                     loop, resetAfterFinish, chain)

\* stop(cb)
stop(s, hasCb) == stopAnimation(s, hasCb, "stop")

\* a reset() that also forgets the animation that was played
resetToIdle(s, hasCb) ==
  [setValue(stopAnimation(s, hasCb, "reset"), 0) EXCEPT !.animationType = NoAnimation]

\* reset(cb)
reset(s, hasCb) == setValue(stopAnimation(s, hasCb, "reset"), 0)

\* a timing animation that ends at its last frame even when looping
tickNoLoop(s, r) ==
  LET p  == s.runs[r].pos + 1
      s1 == emit([s EXCEPT !.runs[r].pos = p, !.value = p], "update", r)
  IN  IF p = s.runs[r].toValue
        THEN debouncedOnEnd([s1 EXCEPT !.runs[r].active = FALSE], r, TRUE)
        ELSE s1

\* one step of the timing animation of run r
tick(s, r) ==
  LET rn == s.runs[r]
  IN  IF rn.loop /\ rn.pos = rn.toValue
        THEN emit([s EXCEPT !.runs[r].pos = 0, !.value = 0], "wrap", r)
        ELSE LET p  == rn.pos + 1
                 s1 == emit([s EXCEPT !.runs[r].pos = p, !.value = p], "update", r)
             IN  IF p = rn.toValue /\ ~rn.loop
                   THEN debouncedOnEnd([s1 EXCEPT !.runs[r].active = FALSE], r, TRUE)
                   ELSE s1

\* the unmount cleanup: animatedValue.stopAnimation()
unmountCleanup(s) == stopAnimation(s, FALSE, "unmount")

\* ------------------------------------------------------------- actions

\* a run that no longer ticks and whose end handler has fired can do nothing
\* more: only its outcome is kept, with the operation that ended it
retire(rs, op) ==
  [r \in DOMAIN rs |->
     IF rs[r].active \/ rs[r].onEnd THEN rs[r]
     ELSE [rs[r] EXCEPT !.type = NoAnimation, !.toValue = 0, !.pos = 0,
                        !.resetAfterFinish = FALSE, !.chain = NoChain,
                        !.endedBy = IF @ = "" THEN op ELSE @]]

\* a second instance that has just been constructed, on the same platform
NewSession(native) ==
  [animationType |-> NoAnimation, value |-> 0, animation |-> 0, runs |-> <<>>,
   isNative |-> FALSE, nativeDriver |-> native, pending |-> <<>>,
   cbCount |-> [stop |-> 0, reset |-> 0], events |-> <<>>, mounted |-> TRUE]

\* an operation whose animatedValue is one object for all instances
CommitShared(n, op) ==
  /\ animationType' = n.animationType
  /\ animatedValue' = n.value
  /\ animation' = n.animation
  /\ runs' = retire(n.runs, op.op)
  /\ isNative' = n.isNative
  /\ pending' = n.pending
  /\ cbCount' = n.cbCount
  /\ events' = n.events
  /\ lastOp' = op
  /\ peer' = [peer EXCEPT !.value = n.value]
  /\ UNCHANGED <<nativeDriver, renderVars, probe>>

\* the outcome of an operation becomes the state of this instance: its
\* refs and state hooks are its own
Commit(n, op) ==
  /\ animationType' = n.animationType
  /\ animatedValue' = n.value
  /\ animation' = n.animation
  /\ runs' = retire(n.runs, op.op)
  /\ isNative' = n.isNative
  /\ pending' = n.pending
  /\ cbCount' = n.cbCount
  /\ events' = n.events
  /\ lastOp' = op
  /\ UNCHANGED <<nativeDriver, renderVars, probe, peer>>

\* runs that a not yet invoked onFinish may still start
Reserved == Cardinality({r \in DOMAIN runs : runs[r].onEnd /\ runs[r].chain # NoChain})

\* the session of a component that has just been constructed
SessionInit ==
  /\ animationType = NoAnimation
  /\ animatedValue = 0
  /\ animation = 0
  /\ runs = <<>>
  /\ isNative = FALSE
  /\ nativeDriver \in BOOLEAN
  /\ pending = <<>>
  /\ calls = [stop |-> 0, reset |-> 0]
  /\ cbCount = [stop |-> 0, reset |-> 0]
  /\ mounted = TRUE
  /\ lastOp = [op |-> "init"]
  /\ events = <<>>

\* no function has been applied yet
NoProbe == [fn |-> "none"]

\* the example application once mounted: the bundled sheet has resolved
MountedExample ==
  /\ props = DefaultProps
  /\ DEV = TRUE
  /\ imageDimensions = NaturalSize
  /\ request = "resolved"
  /\ LET r == computeInterpolationRanges(props, geometry(props, imageDimensions), DEV)
     IN  interpolationRanges = r.ranges /\ diag = r.diag \cup gridWarning(props)

Init ==
  /\ SessionInit
  /\ MountedExample
  /\ probe = NoProbe
  /\ peer = NewSession(nativeDriver)

Play ==
  /\ mounted
  /\ \E type \in TypeInputs, fps \in FpsInputs, loop \in BOOLEAN,
        raf \in BOOLEAN, chain \in ChainInputs :
       \* a looping run is started without a completion callback: its
       \* resetAfterFinish and onFinish are never read
       /\ loop => (~raf /\ chain = NoChain)
       /\ playable(type) =>
            Len(runs) + Reserved + 1 + (IF chain = NoChain THEN 0 ELSE 1) <= MaxPlays
       /\ \E n \in {play(Cur, type, fps, loop, raf, chain)} :
            Commit(n, [op |-> "play", type |-> type, fps |-> fps])
       /\ UNCHANGED <<calls, mounted>>

Stop ==
  /\ mounted
  /\ calls.stop + calls.reset < MaxCalls
  /\ \E n \in {stop(Cur, TRUE)} : Commit(n, [op |-> "stop"])
  /\ calls' = [calls EXCEPT !.stop = @ + 1]
  /\ UNCHANGED mounted

Reset ==
  /\ mounted
  /\ calls.stop + calls.reset < MaxCalls
  /\ \E n \in {reset(Cur, TRUE)} : Commit(n, [op |-> "reset"])
  /\ calls' = [calls EXCEPT !.reset = @ + 1]
  /\ UNCHANGED mounted

\* the timing animation of run r delivers its next frame
TickRun(r) ==
  /\ r \in DOMAIN runs
  /\ runs[r].active
  /\ \E n \in {tick(Cur, r)} : Commit(n, [op |-> "tick", run |-> r])
  /\ UNCHANGED <<calls, mounted>>

Tick == \E r \in 1..MaxPlays : TickRun(r)

\* the native side answers a stopAnimation callback request
Deliver ==
  /\ pending # <<>>
  /\ \E n \in {invokeCb([Cur EXCEPT !.pending = Tail(@)], Head(pending))} :
       Commit(n, [op |-> "deliver"])
  /\ UNCHANGED <<calls, mounted>>

Unmount ==
  /\ mounted
  /\ \E n \in {unmountCleanup(Cur)} : Commit(n, [op |-> "unmount"])
  /\ mounted' = FALSE
  /\ UNCHANGED calls

Next == Play \/ Stop \/ Reset \/ Tick \/ Deliver \/ Unmount

Spec == Init /\ [][Next]_vars

\* every running animation keeps receiving frames, and the native side
\* answers every callback request
FairSpec ==
  /\ Spec
  /\ \A r \in 1..MaxPlays : WF_vars(TickRun(r))
  /\ WF_vars(Deliver)

\* ------------------------------------------- rendering and geometry

sessionVars == <<animationType, animatedValue, animation, runs, isNative,
                 nativeDriver, pending, calls, cbCount, mounted, lastOp, events>>

\* the first render of a component: imageDimensions is still {0, 0}
RenderInit ==
  /\ SessionInit
  /\ nativeDriver
  /\ props \in PropsInputs
  /\ DEV \in BOOLEAN
  /\ imageDimensions = [width |-> 0, height |-> 0]
  /\ request = "init"
  /\ LET r == computeInterpolationRanges(props, geometry(props, imageDimensions), DEV)
     IN  interpolationRanges = r.ranges /\ diag = r.diag \cup gridWarning(props)
  /\ probe = NoProbe
  /\ peer = NewSession(nativeDriver)

\* the state after a step of the dimension effect, and the render it causes
Rendered(e) ==
  LET r == rerender(props, imageDimensions, e.dims, DEV, interpolationRanges)
  IN  /\ imageDimensions' = e.dims
      /\ request' = e.request
      /\ interpolationRanges' = r.ranges
      /\ diag' = e.diag \cup r.diag
      /\ probe' = NoProbe
      /\ UNCHANGED <<sessionVars, props, DEV, peer>>

\* the dimension effect runs after the first render
MountEffect ==
  /\ request = "init"
  /\ \E assetOk \in BOOLEAN :
       /\ (props.source # "local" \/ (props.width # 0 /\ props.height # 0)) => assetOk
       /\ \E e \in {dimensionEffect(props, imageDimensions, assetOk, NaturalSize)} :
            Rendered(e)

\* Image.getSize reports the size of the remote image
GetSizeSuccess ==
  /\ request = "pending"
  /\ Rendered([dims |-> NaturalSize, request |-> "resolved", diag |-> {}])

\* Image.getSize fails
GetSizeFailure ==
  /\ request = "pending"
  /\ Rendered([dims |-> imageDimensions, request |-> "failed",
               diag |-> {Diag("error", "dimensions", "remote", 0)}])

\* getFrameCoords is applied to a frame index
ApplyGetFrameCoords ==
  \E frameIndex \in (-1)..(props.columns * props.rows + 1) :
    \E c \in {getFrameCoords(frameIndex, geometry(props, imageDimensions), DEV)} :
      /\ probe' = [fn |-> "getFrameCoords", frameIndex |-> frameIndex,
                   translateX |-> c.translateX, translateY |-> c.translateY]
      /\ diag' = c.diag
      /\ UNCHANGED <<sessionVars, props, DEV, imageDimensions, request,
                     interpolationRanges, peer>>

\* the names animationType can hold: null, or a name play() has accepted
ActiveInputs == {NoAnimation} \cup {type \in DOMAIN animations : playable(type)}

\* the image is drawn for some value of animatedValue, in half frames
ApplyTransform ==
  \E type \in ActiveInputs, h \in (-1)..(2 * MaxFrames + 1) :
    \E tr \in {transform(Rat(h, 2), type, interpolationRanges)} :
      /\ probe' = [fn |-> "transform", type |-> type, value |-> Rat(h, 2),
                   translateX |-> tr.translateX, translateY |-> tr.translateY]
      /\ diag' = {}
      /\ UNCHANGED <<sessionVars, props, DEV, imageDimensions, request,
                     interpolationRanges, peer>>

RenderNext ==
  \/ MountEffect
  \/ GetSizeSuccess
  \/ GetSizeFailure
  \/ ApplyGetFrameCoords
  \/ ApplyTransform

RenderSpec == RenderInit /\ [][RenderNext]_vars

\* ------------------------------------------- generateFrames alone

\* generateFrames is about to be applied to some row, range and column count
FramesInit ==
  /\ SessionInit
  /\ nativeDriver
  /\ MountedExample
  /\ probe \in {[fn |-> "generateFrames", row |-> row, startFrame |-> startFrame,
                  endFrame |-> endFrame, totalColumns |-> totalColumns,
                  done |-> FALSE, frames |-> <<>>] :
                   row \in 0..MaxRow, startFrame \in 0..MaxFrames,
                   endFrame \in 0..MaxFrames, totalColumns \in 1..MaxColumns}
  /\ peer = NewSession(nativeDriver)

ApplyGenerateFrames ==
  /\ probe.fn = "generateFrames"
  /\ ~probe.done
  /\ probe' = [probe EXCEPT !.done = TRUE,
                            !.frames = generateFrames(probe.row, probe.startFrame,
                                                      probe.endFrame, probe.totalColumns)]
  /\ UNCHANGED <<sessionVars, renderVars, peer>>

FramesNext == ApplyGenerateFrames

FramesSpec == FramesInit /\ [][FramesNext]_vars

\* ------------------------------------------- two instances side by side

\* the outcome of an operation becomes the state of the second instance
\* (what happened inside the operation is not kept)
PeerCommit(n) ==
  /\ peer' = [n EXCEPT !.events = <<>>]
  /\ UNCHANGED <<sessionVars, renderVars, probe>>

\* the second instance as an operation finds it
PeerCur == peer

PeerPlay ==
  /\ peer.mounted
  /\ Len(peer.runs) < PairPlays
  /\ \E type \in TypeInputs, loop \in BOOLEAN :
       \E n \in {play(PeerCur, type, <<>>, loop, FALSE, NoChain)} : PeerCommit(n)

PeerStop ==
  /\ peer.mounted
  /\ \E n \in {stop(PeerCur, FALSE)} : PeerCommit(n)

PeerReset ==
  /\ peer.mounted
  /\ \E n \in {reset(PeerCur, FALSE)} : PeerCommit(n)

PeerTick ==
  \E r \in DOMAIN peer.runs :
    /\ peer.runs[r].active
    /\ \E n \in {tick(PeerCur, r)} : PeerCommit(n)

PeerUnmount ==
  /\ peer.mounted
  /\ \E n \in {[unmountCleanup(PeerCur) EXCEPT !.mounted = FALSE]} : PeerCommit(n)

\* play() on the first instance, while it has played less than PairPlays times
PairPlay == Len(runs) < PairPlays /\ Play

PairNext ==
  \/ PairPlay \/ Stop \/ Reset \/ Tick \/ Deliver \/ Unmount
  \/ PeerPlay \/ PeerStop \/ PeerReset \/ PeerTick \/ PeerUnmount

PairSpec == Init /\ [][PairNext]_vars

\* ------------------------------------------- props that change

\* the parent renders the component again, with other props
SetProps ==
  /\ mounted
  /\ \E newP \in PropsChanges \ {props} :
       \E r \in {propsRender(props, newP, imageDimensions, DEV, interpolationRanges)} :
         /\ props' = newP
         /\ interpolationRanges' = r.ranges
         /\ diag' = r.diag
         \* the dimension effect runs again when source, width or height changed
         /\ request' = IF <<newP.source, newP.width, newP.height>>
                            # <<props.source, props.width, props.height>>
                         THEN "init" ELSE request
         /\ probe' = NoProbe
         /\ UNCHANGED <<sessionVars, DEV, imageDimensions, peer>>

\* the image is drawn for the session as it is
DrawFrame ==
  \E tr \in {transform(RatOf(animatedValue), animationType, interpolationRanges)} :
    /\ probe' = [fn |-> "transform", type |-> animationType,
                 value |-> RatOf(animatedValue),
                 translateX |-> tr.translateX, translateY |-> tr.translateY]
    /\ diag' = {}
    /\ UNCHANGED <<sessionVars, props, DEV, imageDimensions, request,
                   interpolationRanges, peer>>

\* play() while the animations prop is the one play() closes over, and the
\* component has played less than PropsPlays times
PropsPlay ==
  /\ props.animations = animations
  /\ props.columns = columns
  /\ Len(runs) < PropsPlays
  /\ Play

PropsInit ==
  /\ SessionInit
  /\ nativeDriver
  /\ MountedExample
  /\ probe = NoProbe
  /\ peer = NewSession(nativeDriver)

PropsNext ==
  \/ SetProps \/ MountEffect \/ DrawFrame
  \/ PropsPlay \/ Tick

PropsSpec == PropsInit /\ [][PropsNext]_vars

\* ------------------------------------------- one animation, any range

\* the first render of a component that registers the single animation
\* "clip"
ClipInit ==
  /\ SessionInit
  /\ nativeDriver
  /\ props \in ClipInputs
  /\ DEV \in BOOLEAN
  /\ imageDimensions = [width |-> 0, height |-> 0]
  /\ request = "init"
  /\ LET r == computeInterpolationRanges(props, geometry(props, imageDimensions), DEV)
     IN  interpolationRanges = r.ranges /\ diag = r.diag \cup gridWarning(props)
  /\ probe = NoProbe
  /\ peer = NewSession(nativeDriver)

ClipNext == MountEffect

ClipSpec == ClipInit /\ [][ClipNext]_vars

\* ------------------------------------------- a grid that is warned about

\* the first render of a component whose grid has columns <= 1 or rows < 1
ConfigInit ==
  /\ SessionInit
  /\ nativeDriver
  /\ props \in ConfigInputs
  /\ DEV \in BOOLEAN
  /\ imageDimensions = [width |-> 0, height |-> 0]
  /\ request = "init"
  /\ LET r == computeInterpolationRanges(props, geometry(props, imageDimensions), DEV)
     IN  interpolationRanges = r.ranges /\ diag = r.diag \cup gridWarning(props)
  /\ probe = NoProbe
  /\ peer = NewSession(nativeDriver)

\* play() on that component, while it has played less than ConfigPlays times
ConfigPlay == Len(runs) < ConfigPlays /\ Play

ConfigNext ==
  \/ MountEffect \/ GetSizeSuccess \/ GetSizeFailure
  \/ ConfigPlay \/ Tick

ConfigSpec == ConfigInit /\ [][ConfigNext]_vars

\* ------------------------------------------------------------- helpers

\* the entries of an event list that are event e of run r
EventsOf(ev, e, r) == {i \in DOMAIN ev : ev[i].e = e /\ ev[i].run = r}

\* some entry of the last operation's event list is event e
Has(e) == \E i \in DOMAIN events : events[i].e = e

\* no advance is in flight
NoAdvance == \A r \in DOMAIN runs : ~runs[r].active

\* -------------------------------------------------------------- claims

\* C1: when the last frame of a non-looping run is delivered, the run stops
\* ticking; onFinish of that run is invoked exactly once in that step, and at
\* that moment progress is 0 if resetAfterFinish (the reset came first) and
\* frameCount otherwise; a run that ended naturally has had exactly one
\* onFinish ever after.
C1_NaturalFinish ==
  /\ [][\A r \in DOMAIN runs :
          ( /\ lastOp'.op = "tick" /\ lastOp'.run = r
            /\ runs[r].active /\ ~runs[r].loop
            /\ runs[r].pos + 1 = runs[r].toValue )
          => LET fin == EventsOf(events', "onFinish", r)
                 at  == IF runs[r].resetAfterFinish THEN 0 ELSE runs[r].toValue
             IN  /\ ~runs'[r].active
                 /\ runs'[r].result = "finished"
                 /\ runs'[r].finished = 1
                 /\ Cardinality(fin) = 1
                 /\ \A i \in fin :
                      /\ events'[i].value = at
                      /\ runs[r].resetAfterFinish =>
                           \E j \in 1..(i - 1) : /\ events'[j].e = "setValue"
                                                 /\ events'[j].value = 0
                 /\ runs[r].chain = NoChain => animatedValue' = at
       ]_vars
  /\ [](\A r \in DOMAIN runs : runs[r].result = "finished" => runs[r].finished = 1)

\* a run with resetAfterFinish has just ended naturally
C1_Witness ==
  /\ lastOp.op = "tick"
  /\ Has("setValue")
  /\ \E r \in DOMAIN runs : /\ runs[r].result = "finished"
                            /\ EventsOf(events, "onFinish", r) # {}

\* C2 (as claimed): a non-looping run that stop() or reset() ended before
\* its last frame never has its onFinish invoked.
C2_PreemptedNeverFinishes ==
  \A r \in DOMAIN runs :
    (~runs[r].loop /\ runs[r].endedBy \in {"stop", "reset"}) => runs[r].finished = 0

\* C3 (as claimed): stop() cancels every advance and leaves progress as it
\* was; while nothing is in flight, only play() and reset() change progress.
C3_StopFreezesProgress ==
  [][ /\ lastOp'.op = "stop" => (animatedValue' = animatedValue /\ NoAdvance')
      /\ (NoAdvance /\ animatedValue' # animatedValue)
            => lastOp'.op \in {"play", "reset"}
    ]_vars

\* C4 (as claimed): when reset() returns, progress is 0 and no advance is in
\* flight.
C4_ResetLeavesIdle ==
  lastOp.op = "reset" => (animatedValue = 0 /\ animation = 0 /\ NoAdvance)

\* the condition under which the curve builder registers a curve for a name
HasValidCurve(type) ==
  /\ type \in DOMAIN animations
  /\ animations[type].endFrame - animations[type].startFrame + 1 >= 2

\* C5: play(name) fails exactly when name has no valid curve; a failing play
\* signals one error and leaves activeAnimation, progress, the in-flight
\* advance and every run (with its pending onFinish) as they were.
C5_FailingPlayChangesNothing ==
  [][lastOp'.op = "play" =>
       IF HasValidCurve(lastOp'.type)
         THEN /\ \A i \in DOMAIN events' : events'[i].e # "error"
              /\ \E i \in DOMAIN events' : events'[i].e = "start"
         ELSE /\ Len(events') = 1 /\ events'[1].e = "error"
              /\ UNCHANGED <<animationType, animatedValue, animation, runs,
                             isNative, pending, calls, cbCount, mounted>>
    ]_vars

\* a play() has just failed while a non-looping run was in flight
C5_Witness ==
  /\ lastOp.op = "play"
  /\ Has("error")
  /\ animation # 0
  /\ runs[animation].active /\ runs[animation].onEnd /\ ~runs[animation].loop
  /\ animatedValue > 0

\* C6 (as claimed): a successful play() issued while an advance is in flight
\* leaves activeAnimation at the new name and progress at 0, and every
\* advance that was in flight before the call has stopped ticking.
C6_PlayRestartsAtomically ==
  [][(lastOp'.op = "play" /\ HasValidCurve(lastOp'.type) /\ ~NoAdvance)
       => /\ animationType' = lastOp'.type
          /\ animatedValue' = 0
          /\ \A r \in DOMAIN runs : runs[r].active => ~runs'[r].active
    ]_vars

\* C7: the onFinish of a run started with loop=true is never invoked,
\* neither when it wraps around nor when an operation ends it.
C7_LoopNeverFinishes ==
  /\ \A r \in DOMAIN runs : runs[r].loop => runs[r].finished = 0
  /\ \A i \in DOMAIN events :
       events[i].e = "onFinish" => ~runs[events[i].run].loop
  /\ Has("wrap") => ~Has("onFinish")

\* a looping run has been ended by an operation
C7_Witness ==
  \E r \in DOMAIN runs :
    /\ runs[r].loop
    /\ runs[r].endedBy \in {"stop", "reset", "play", "unmount"}

\* the looping run r is in flight
LoopActive(r) == r \in DOMAIN runs /\ runs[r].loop /\ runs[r].active

\* the looping run r has just brought progress to frameCount
LoopAtEnd(r) ==
  /\ LoopActive(r)
  /\ runs[r].pos = runs[r].toValue
  /\ animatedValue = runs[r].toValue

\* the looping run r has just snapped progress back to 0
LoopAtStart(r) == LoopActive(r) /\ runs[r].pos = 0 /\ animatedValue = 0

\* C8 (as claimed): a run started with loop=true brings progress to
\* frameCount infinitely often unless a stop() has occurred, and only stop()
\* ends a looping run.
C8_OnlyStopEndsLoop ==
  /\ \A r \in 1..MaxPlays :
       []<>((r \in DOMAIN runs /\ runs[r].loop) => (calls.stop > 0 \/ LoopAtEnd(r)))
  /\ [][\A r \in DOMAIN runs :
          (LoopActive(r) /\ ~LoopActive(r)') => lastOp'.op = "stop"]_vars

\* C8 (amended): a looping run brings progress to frameCount, and back to
\* 0, infinitely often unless it is ended; and it is ended only by stop(),
\* reset(), a successful play() or disposal.
C8_LoopRepeatsUntilEnded ==
  /\ \A r \in 1..MaxPlays : []<>(LoopActive(r) => LoopAtEnd(r))
  /\ \A r \in 1..MaxPlays : []<>(LoopActive(r) => LoopAtStart(r))
  /\ [][\A r \in DOMAIN runs :
          (LoopActive(r) /\ ~LoopActive(r)')
            => \/ lastOp'.op \in {"stop", "reset", "unmount"}
               \/ \E i \in DOMAIN events' : events'[i].e = "start"]_vars

\* a looping run has snapped back to 0 and reached frameCount once more
C8_Witness ==
  /\ lastOp.op = "tick"
  /\ \E r \in DOMAIN runs : LoopAtEnd(r) /\ lastOp.run = r
  /\ calls.stop = 0 /\ calls.reset = 0

\* C9 (as claimed): once the instance is disposed of no advance is in
\* flight, and neither the disposal nor anything after it invokes an
\* onFinish, stop or reset callback.
C9_DisposalIsSilent ==
  ~mounted =>
    /\ NoAdvance
    /\ \A i \in DOMAIN events : events[i].e \notin {"onFinish", "stop", "reset"}

\* C10 (as claimed): every stop(cb) and reset(cb) call has its cb invoked
\* exactly once (at once, or when the native side answers), and when the
\* call returns every advance that was in flight has been cancelled.
C10_CallbackOncePerCall ==
  /\ [](\A k \in {"stop", "reset"} :
          calls[k] = cbCount[k] + Cardinality({i \in DOMAIN pending : pending[i] = k}))
  /\ \A k \in {"stop", "reset"} : []<>(calls[k] = cbCount[k])
  /\ [][lastOp'.op \in {"stop", "reset"} =>
          \A r \in DOMAIN runs : runs[r].active => ~runs'[r].active]_vars

\* C11 (as claimed): whenever the callback handed to reset() runs, progress
\* is already 0, and inside the reset() call it runs only after the advance
\* has been cancelled.
C11_ResetCallbackSeesZero ==
  \A i \in DOMAIN events :
    events[i].e = "reset" =>
      /\ events[i].value = 0
      /\ lastOp.op = "reset" =>
           \A j \in DOMAIN events : events[j].e = "cancel" => j < i

\* C12 (as claimed): a successful play(name, fps) leaves activeAnimation at
\* name and progress at 0, and starts one advance of the value from 0 to
\* frameCount whose duration is (frameCount / fps) * 1000 ms, fps being 24
\* when omitted.
C12_PlayStartsTimedAdvance ==
  [][(lastOp'.op = "play" /\ HasValidCurve(lastOp'.type)) =>
       LET name == lastOp'.type
           frameCount == animations[name].endFrame - animations[name].startFrame + 1
           fps == IF lastOp'.fps = <<>> THEN 24 ELSE lastOp'.fps[1]
           r == animation'
       IN  /\ animationType' = name
           /\ animatedValue' = 0
           /\ r \in DOMAIN runs' /\ r \notin DOMAIN runs
           /\ runs'[r].type = name /\ runs'[r].active
           /\ runs'[r].pos = 0 /\ runs'[r].toValue = frameCount
           /\ \E i \in DOMAIN events' :
                /\ events'[i].e = "start" /\ events'[i].run = r
                /\ events'[i].duration.num * fps
                     = frameCount * 1000 * events'[i].duration.den
    ]_vars

\* the frame width and height the geometry has, as fractions <<num, den>>:
\* the supplied frameWidth / frameHeight, else the sheet's width / columns
\* and height / rows, the sheet's size being the supplied width / height or
\* else the resolved one
SheetWidth == IF props.width # 0 THEN props.width ELSE imageDimensions.width
SheetHeight == IF props.height # 0 THEN props.height ELSE imageDimensions.height
FrameWidthFrac ==
  IF props.frameWidth # 0 THEN <<props.frameWidth, 1>> ELSE <<SheetWidth, props.columns>>
FrameHeightFrac ==
  IF props.frameHeight # 0 THEN <<props.frameHeight, 1>> ELSE <<SheetHeight, props.rows>>

\* getFrameCoords has just been applied to an index inside / outside the grid
CoordsInside ==
  /\ probe.fn = "getFrameCoords"
  /\ 0 <= probe.frameIndex /\ probe.frameIndex < props.columns * props.rows
CoordsOutside ==
  /\ probe.fn = "getFrameCoords"
  /\ (probe.frameIndex < 0 \/ probe.frameIndex >= props.columns * props.rows)

\* C13: for 0 <= frameIndex < columns * rows, getFrameCoords returns
\* translateX = -(frameIndex mod columns) * frameWidth - offsetX and
\* translateY = -floor(frameIndex / columns) * frameHeight - offsetY
\* (fractions compared by cross-multiplication), and prints nothing.
C13_OffsetInsideGrid ==
  CoordsInside =>
    LET column == probe.frameIndex % props.columns
        row    == probe.frameIndex \div props.columns
        fw == FrameWidthFrac
        fh == FrameHeightFrac
    IN  /\ probe.translateX.num * fw[2]
             = (-(column * fw[1]) - props.offsetX * fw[2]) * probe.translateX.den
        /\ probe.translateY.num * fh[2]
             = (-(row * fh[1]) - props.offsetY * fh[2]) * probe.translateY.den
        /\ diag = {}

\* a frame in the second row and third column, of a sheet whose frame width
\* is not a whole number, with offsets
C13_Witness ==
  /\ CoordsInside
  /\ probe.frameIndex = 5 /\ props.columns = 3
  /\ props.offsetX = 5 /\ props.offsetY = 3
  /\ props.frameWidth = 0 /\ props.width = 0 /\ imageDimensions = NaturalSize

\* the curve of every animation with at least 2 frames is registered, with
\* {0, 0} at the keyframes of the frames that are out of bounds
CurvesSurviveBounds ==
  \A key \in DOMAIN animations :
    LET a == animations[key]
        n == a.endFrame - a.startFrame + 1
    IN  n >= 2 =>
          /\ key \in DOMAIN interpolationRanges
          /\ playable(key)
          /\ \A k \in 0..(n - 1) :
               LET f == a.row * props.columns + a.startFrame + k
                   c == interpolationRanges[key]
               IN  (f < 0 \/ f >= props.columns * props.rows) =>
                     \A j \in {2 * k + 1, 2 * k + 2} :
                       /\ c.translateX.output[j] = [num |-> 0, den |-> 1]
                       /\ c.translateY.output[j] = [num |-> 0, den |-> 1]

\* C14 (as claimed): for a frameIndex outside [0, columns * rows),
\* getFrameCoords returns {0, 0} whatever the offsets and prints a bounds
\* warning; curves are still built and the animation stays playable.
C14_OutOfBoundsWarns ==
  /\ CoordsOutside =>
       /\ probe.translateX = [num |-> 0, den |-> 1]
       /\ probe.translateY = [num |-> 0, den |-> 1]
       /\ \E d \in diag : d.level = "warn" /\ d.msg = "bounds" /\ d.n = probe.frameIndex
  /\ CurvesSurviveBounds

\* C14 (amended): for a frameIndex outside [0, columns * rows),
\* getFrameCoords returns {0, 0} whatever the offsets; it prints a bounds
\* warning in a development build and nothing in a production build; curves
\* are still built and the animation stays playable.
C14_OutOfBoundsIsSafe ==
  /\ CoordsOutside =>
       /\ probe.translateX = [num |-> 0, den |-> 1]
       /\ probe.translateY = [num |-> 0, den |-> 1]
       /\ DEV => diag = {Diag("warn", "bounds", "", probe.frameIndex)}
       /\ ~DEV => diag = {}
  /\ CurvesSurviveBounds

\* a production build has looked up frame -1 of a sheet with offsets, one of
\* whose curves holds frames that are out of bounds
C14_Witness ==
  /\ CoordsOutside
  /\ probe.frameIndex = -1
  /\ ~DEV
  /\ props.offsetX = 5 /\ props.offsetY = 3
  /\ props.rows = 1 /\ "left" \in DOMAIN interpolationRanges

\* C15: for a range with endFrame >= startFrame, generateFrames returns
\* exactly endFrame - startFrame + 1 entries, the consecutive values
\* row * columns + startFrame up to row * columns + endFrame in increasing
\* order (an empty range gives the empty list).
C15_FrameListIsTheRange ==
  (probe.fn = "generateFrames" /\ probe.done) =>
    LET first == probe.row * probe.totalColumns + probe.startFrame
        last  == probe.row * probe.totalColumns + probe.endFrame
        f     == probe.frames
    IN  IF probe.endFrame >= probe.startFrame
          THEN /\ Len(f) = probe.endFrame - probe.startFrame + 1
               /\ f[1] = first /\ f[Len(f)] = last
               /\ \A i \in 1..(Len(f) - 1) : f[i + 1] = f[i] + 1
          ELSE f = <<>>

\* the frames 1..3 of the second row of a sheet with 3 columns
C15_Witness ==
  /\ probe.fn = "generateFrames" /\ probe.done
  /\ probe.row = 1 /\ probe.startFrame = 1 /\ probe.endFrame = 3
  /\ probe.totalColumns = 3
  /\ probe.frames = <<4, 5, 6>>

\* C16: an animation whose frame list has fewer than 2 entries is never in
\* the curve set, the render that skipped it has warned with its name and
\* its frame count, and every play() of that name prints one error and
\* changes nothing.
C16_InvalidCurveNeverPlays ==
  /\ [](\A key \in DOMAIN animations :
          ~HasValidCurve(key) =>
            /\ key \notin DOMAIN interpolationRanges
            /\ Diag("warn", "frames", key,
                    animations[key].endFrame - animations[key].startFrame + 1) \in diag)
  /\ [][(lastOp'.op = "play" /\ lastOp'.type \in DOMAIN animations
           /\ ~HasValidCurve(lastOp'.type))
          => /\ events' = <<[e |-> "error", run |-> 0, value |-> animatedValue]>>
             /\ UNCHANGED <<animationType, animatedValue, animation, runs,
                            interpolationRanges>>
       ]_vars

\* play() of the single-frame animation has just failed during a run
C16_Witness ==
  /\ lastOp.op = "play" /\ lastOp.type = "run"
  /\ Has("error")
  /\ "run" \notin DOMAIN interpolationRanges
  /\ Diag("warn", "frames", "run", 1) \in diag
  /\ ~NoAdvance

\* the translation <<tx, ty>> is the offset of frame f: {0, 0} for a frame
\* out of bounds, else the offset of C13
IsOffsetOf(tx, ty, f) ==
  IF f < 0 \/ f >= props.columns * props.rows
    THEN tx = [num |-> 0, den |-> 1] /\ ty = [num |-> 0, den |-> 1]
    ELSE LET fw == FrameWidthFrac
             fh == FrameHeightFrac
         IN  /\ tx.num * fw[2]
                  = (-((f % props.columns) * fw[1]) - props.offsetX * fw[2]) * tx.den
             /\ ty.num * fh[2]
                  = (-((f \div props.columns) * fh[1]) - props.offsetY * fh[2]) * ty.den

\* the image has just been drawn for animation probe.type at probe.value
Sampled == probe.fn = "transform"

\* the k-th frame (from 0) of animation type
FrameAt(type, k) ==
  animations[type].row * props.columns + animations[type].startFrame + k

\* probe.value clamped to [0, n], as a fraction <<num, den>>
Clamped(n) ==
  IF probe.value.num < 0 THEN <<0, 1>>
  ELSE IF probe.value.num > n * probe.value.den THEN <<n, 1>>
  ELSE <<probe.value.num, probe.value.den>>

\* C17 (as claimed): the translation drawn for progress p is the offset of
\* frame k with k <= p' < k + 1, p' being p clamped to [0, frameCount], and
\* the last frame's offset at p' = frameCount; it is {0, 0} when no
\* animation is active.
C17_SampleIsFloorStep ==
  Sampled =>
    IF probe.type = NoAnimation
      THEN probe.translateX = [num |-> 0, den |-> 1]
           /\ probe.translateY = [num |-> 0, den |-> 1]
      ELSE LET n == animations[probe.type].endFrame - animations[probe.type].startFrame + 1
               c == Clamped(n)
               k == IF c[1] = n * c[2] THEN n - 1 ELSE c[1] \div c[2]
           IN  IsOffsetOf(probe.translateX, probe.translateY, FrameAt(probe.type, k))

\* C17 (amended): the translation drawn for progress p is the offset of
\* frame k with k < p' <= k + 1, p' being p clamped to [0, frameCount], and
\* the first frame's offset at p' = 0; it is {0, 0} when no animation is
\* active.
C17_SampleIsCeilStep ==
  Sampled =>
    IF probe.type = NoAnimation
      THEN probe.translateX = [num |-> 0, den |-> 1]
           /\ probe.translateY = [num |-> 0, den |-> 1]
      ELSE LET n == animations[probe.type].endFrame - animations[probe.type].startFrame + 1
               c == Clamped(n)
               k == IF c[1] = 0 THEN 0 ELSE -((-c[1]) \div c[2]) - 1
           IN  IsOffsetOf(probe.translateX, probe.translateY, FrameAt(probe.type, k))

\* the image has been drawn at progress exactly 1 of an animation whose
\* first two frames have different offsets
C17_Witness ==
  /\ Sampled
  /\ probe.type = "down" /\ probe.value = [num |-> 1, den |-> 1]
  /\ props.rows = 2 /\ props.frameWidth = 32 /\ props.offsetX = 5
  /\ probe.translateX = [num |-> -5, den |-> 1]

\* C18 (as claimed): while imageDimensions is {0, 0} the sheet image is not
\* rendered and the curve set is empty.
C18_NoCurvesWithoutDimensions ==
  (imageDimensions.width = 0 /\ imageDimensions.height = 0) =>
    /\ ~imageRendered(imageDimensions)
    /\ DOMAIN interpolationRanges = {}

C20_InstancesAreIsolated ==
  [][ \/ UNCHANGED peer
      \/ UNCHANGED <<animationType, animatedValue, animation, runs, isNative,
                     pending, cbCount, mounted, interpolationRanges>>
    ]_vars

\* both instances are in the middle of a run, at different progress
C20_Witness ==
  /\ animation # 0 /\ runs[animation].active
  /\ peer.animation # 0 /\ peer.runs[peer.animation].active
  /\ animationType # peer.animationType
  /\ animatedValue > 0 /\ peer.value > 0 /\ animatedValue # peer.value

\* the component was rendered with a grid that has columns <= 1 or rows < 1
BadGrid == props.columns <= 1 \/ props.rows < 1

\* the curve of every animation that has at least 2 frames in the grid as
\* given is registered, and every keyframe of a frame inside
\* [0, columns * rows) holds the offset of that frame in the grid as given
CurvesUseGridAsGiven ==
  \A key \in DOMAIN animations :
    LET a == animations[key]
        n == a.endFrame - a.startFrame + 1
    IN  n >= 2 =>
          /\ key \in DOMAIN interpolationRanges
          /\ Len(interpolationRanges[key].translateX.output) = 2 * n
          /\ \A k \in 0..(n - 1) :
               LET f  == a.row * props.columns + a.startFrame + k
                   c  == interpolationRanges[key]
                   fw == FrameWidthFrac
                   fh == FrameHeightFrac
               IN  (0 <= f /\ f < props.columns * props.rows) =>
                     \A j \in {2 * k + 1, 2 * k + 2} :
                       /\ c.translateX.output[j].num * fw[2]
                            = (-((f % props.columns) * fw[1]) - props.offsetX * fw[2])
                                * c.translateX.output[j].den
                       /\ c.translateY.output[j].num * fh[2]
                            = (-((f \div props.columns) * fh[1]) - props.offsetY * fh[2])
                                * c.translateY.output[j].den

\* C21: a component whose grid has columns <= 1 or rows < 1 prints the grid
\* warning at every render and goes on: the curve of every animation with at
\* least 2 frames is built with the grid as given, and play() of such an
\* animation starts a run of it without an error.
C21_BadGridIsNotFatal ==
  /\ [](BadGrid =>
          /\ Diag("warn", "grid", "", 0) \in diag
          /\ CurvesUseGridAsGiven)
  /\ [][(BadGrid /\ lastOp'.op = "play" /\ HasValidCurve(lastOp'.type)) =>
          /\ \A i \in DOMAIN events' : events'[i].e # "error"
          /\ \E i \in DOMAIN events' :
               /\ events'[i].e = "start"
               /\ runs'[events'[i].run].type = lastOp'.type
               /\ runs'[events'[i].run].active
               /\ runs'[events'[i].run].toValue
                    = Len(generateFrames(animations[lastOp'.type].row,
                                         animations[lastOp'.type].startFrame,
                                         animations[lastOp'.type].endFrame,
                                         props.columns))
       ]_vars

\* play("down") has started a run on a sheet of one column and no row, once
\* its dimensions are known
C21_Witness ==
  /\ props.columns = 1 /\ props.rows = 0
  /\ imageDimensions = NaturalSize
  /\ lastOp.op = "play" /\ lastOp.type = "down"
  /\ Has("start")
  /\ "down" \in DOMAIN interpolationRanges

\* C22: the curve of a registered animation with n >= 2 frames has 2n
\* keyframes on both axes; the keyframes 2k and 2k+1 (from 0) have progress
\* k and k+1 and both hold the offset of the k-th frame; so the progress
\* sequence starts at 0, never decreases, ends at n, and has 4 entries or
\* more.
C22_CurveIsStepKeyframes ==
  \A key \in DOMAIN interpolationRanges :
    LET n  == animations[key].endFrame - animations[key].startFrame + 1
        cx == interpolationRanges[key].translateX
        cy == interpolationRanges[key].translateY
    IN  /\ n >= 2
        /\ Len(cx.input) = 2 * n /\ Len(cx.output) = 2 * n
        /\ Len(cy.input) = 2 * n /\ Len(cy.output) = 2 * n
        /\ cy.input = cx.input
        /\ \A k \in 0..(n - 1) :
             /\ cx.input[2 * k + 1] = k
             /\ cx.input[2 * k + 2] = k + 1
             /\ IsOffsetOf(cx.output[2 * k + 1], cy.output[2 * k + 1], FrameAt(key, k))
             /\ IsOffsetOf(cx.output[2 * k + 2], cy.output[2 * k + 2], FrameAt(key, k))
        /\ cx.input[1] = 0 /\ cx.input[2 * n] = n
        /\ \A j \in 1..(2 * n - 1) : cx.input[j] <= cx.input[j + 1]
        /\ Len(cx.input) >= 4

\* the curves of a 3 x 2 sheet with offsets whose frame width is not a whole
\* number: "down" has 6 keyframes, "left" has 4
C22_Witness ==
  /\ props.columns = 3 /\ props.rows = 2
  /\ props.offsetX = 5 /\ props.offsetY = 3
  /\ props.frameWidth = 0 /\ props.width = 0 /\ imageDimensions = NaturalSize
  /\ DOMAIN interpolationRanges = {"down", "left"}
  /\ Len(interpolationRanges["down"].translateX.input) = 6
  /\ Len(interpolationRanges["left"].translateY.output) = 4

\* the frames the definitions in force give animation type, if it has a
\* valid curve under them
ValidNow(type) ==
  /\ type \in DOMAIN props.animations
  /\ props.animations[type].endFrame - props.animations[type].startFrame + 1 >= 2

\* C23: whatever props the component was last rendered with, also while a
\* run is in flight, the curves in use are those of the definitions in
\* force, and the translation drawn for the active animation is the offset,
\* in the geometry in force, of the frame its definition in force gives for
\* the progress (clamped, steps closed at their upper end); it is {0, 0} when
\* the active name has no valid curve any more.
C23_DrawnFromCurrentCurves ==
  /\ DOMAIN interpolationRanges = {key \in DOMAIN props.animations : ValidNow(key)}
  /\ Sampled =>
       IF ValidNow(probe.type)
         THEN LET a == props.animations[probe.type]
                  n == a.endFrame - a.startFrame + 1
                  c == Clamped(n)
                  k == IF c[1] <= c[2] THEN 0 ELSE (c[1] + c[2] - 1) \div c[2] - 1
              IN  IsOffsetOf(probe.translateX, probe.translateY,
                             a.row * props.columns + a.startFrame + k)
         ELSE /\ probe.translateX = [num |-> 0, den |-> 1]
              /\ probe.translateY = [num |-> 0, den |-> 1]

\* while a run of "down" was in flight at progress 2, the definitions were
\* replaced (by ones that move "down" to the second row) and offsets were
\* given, and the image has been drawn since
C23_Witness ==
  /\ Sampled
  /\ probe.type = "down" /\ probe.value = [num |-> 2, den |-> 1]
  /\ ~NoAdvance
  /\ props.animations # animations /\ props.animations["down"].row = 1
  /\ props.offsetX = 5 /\ props.rows = 4

\* C24: the onFinish handed to a play() call is invoked at most once, ever:
\* no run has had more than one onFinish, no operation invokes the onFinish
\* of one run twice, and none invokes it for a run that has had it.
C24_OnFinishAtMostOnce ==
  /\ [](\A r \in DOMAIN runs :
          /\ runs[r].finished <= 1
          /\ Cardinality(EventsOf(events, "onFinish", r)) <= 1)
  /\ [][\A r \in DOMAIN runs :
          runs[r].finished = 1 => EventsOf(events', "onFinish", r) = {}]_vars

\* a run whose onFinish was invoked when play() superseded it, and which
\* stop() or reset() found ended afterwards
C24_Witness ==
  /\ lastOp.op \in {"stop", "reset"}
  /\ \E r \in DOMAIN runs :
       /\ runs[r].finished = 1
       /\ runs[r].result = "stopped"
       /\ runs[r].endedBy = "play"

\* C25 (as claimed): never more than one run is in flight, and none is once
\* stop() or reset() has returned.
C25_AtMostOneAdvance ==
  /\ Cardinality({r \in DOMAIN runs : runs[r].active}) <= 1
  /\ lastOp.op \in {"stop", "reset"} => NoAdvance

\* C26 (as claimed): progress is 0 while no animation was ever played, and
\* otherwise lies between 0 and the number of frames of the active
\* animation.
C26_ProgressWithinActiveCurve ==
  IF animationType = NoAnimation
    THEN animatedValue = 0
    ELSE /\ 0 <= animatedValue
         /\ animatedValue <= animations[animationType].endFrame
                               - animations[animationType].startFrame + 1

\* the translation the image is drawn with for the session as it is
DrawnNow == transform([num |-> animatedValue, den |-> 1], animationType,
                      interpolationRanges)

\* C27: animationType changes only in a step in which a play() succeeds, and
\* then to the name of a run started in that step: stop(), reset(), a last
\* frame and a failing play() by themselves leave it as it was. So when
\* reset() has returned progress is 0, an animation that was active before
\* is still active, and the image is drawn at the offset of the first frame
\* of the active animation.
C27_ActiveChangesOnlyOnPlay ==
  /\ [][animationType' # animationType =>
          \E i \in DOMAIN events' :
            /\ events'[i].e = "start"
            /\ runs'[events'[i].run].type = animationType'
       ]_vars
  /\ [][lastOp'.op = "reset" =>
          /\ animatedValue' = 0
          /\ animationType # NoAnimation => animationType' # NoAnimation
          /\ (\A i \in DOMAIN events' : events'[i].e # "start")
               => animationType' = animationType
       ]_vars
  /\ []((lastOp.op = "reset" /\ animationType # NoAnimation) =>
          IsOffsetOf(DrawnNow.translateX, DrawnNow.translateY,
                     FrameAt(animationType, 0)))

\* reset() has stopped a run of "left" at progress 1: "left" is still the
\* active animation and the image is drawn at its first frame, in the
\* second row
C27_Witness ==
  /\ lastOp.op = "reset"
  /\ animationType = "left" /\ animatedValue = 0
  /\ \E i \in DOMAIN events : events[i].e = "cancel" /\ events[i].value = 1
  /\ \A i \in DOMAIN events : events[i].e # "start"
  /\ DrawnNow.translateY.num < 0

\* the animation "clip" as registered, its number of frames, its k-th frame
\* index (from 0), and the grid row a frame index lies in
Clip == props.animations["clip"]
ClipLen == Clip.endFrame - Clip.startFrame + 1
ClipFrame(k) == Clip.row * props.columns + Clip.startFrame + k
GridRow(f) == f \div props.columns

\* some line of the console output is about a frame that is out of bounds
BoundsWarned == \E d \in diag : d.msg = "bounds"

\* the two keyframes of frame k of "clip" hold the translateY of grid row gr
ClipRowIs(k, gr) ==
  LET cy == interpolationRanges["clip"].translateY.output
      fh == FrameHeightFrac
  IN  \A j \in {2 * k + 1, 2 * k + 2} :
        cy[j].num * fh[2] = (-(gr * fh[1]) - props.offsetY * fh[2]) * cy[j].den

\* C28: an animation with 0 <= row < rows and 0 <= startFrame <= endFrame <
\* columns has all its frame indices in [0, columns * rows) and in grid row
\* row: every keyframe of its curve has translateY = -row * frameHeight -
\* offsetY and no bounds warning is printed. One whose endFrame is columns or
\* more goes on into the following rows: frame k is drawn from grid row
\* floor((row * columns + startFrame + k) / columns), the last one from a
\* row after `row`, and nothing is printed about it while its indices stay
\* below columns * rows (the console holds at most the warning for a list of
\* less than 2 frames and the error of a sheet whose size did not resolve).
C28_FramesStayInRowOrSpill ==
  LET inGrid == 0 <= Clip.row /\ Clip.row < props.rows
                  /\ 0 <= Clip.startFrame /\ Clip.startFrame <= Clip.endFrame
      below  == \A k \in 0..(ClipLen - 1) : ClipFrame(k) < props.columns * props.rows
  IN  /\ (inGrid /\ Clip.endFrame < props.columns) =>
            /\ \A k \in 0..(ClipLen - 1) :
                 /\ 0 <= ClipFrame(k) /\ ClipFrame(k) < props.columns * props.rows
                 /\ GridRow(ClipFrame(k)) = Clip.row
            /\ ~BoundsWarned
            /\ ClipLen >= 2 =>
                 /\ "clip" \in DOMAIN interpolationRanges
                 /\ \A k \in 0..(ClipLen - 1) : ClipRowIs(k, Clip.row)
      /\ (inGrid /\ Clip.endFrame >= props.columns /\ below) =>
            /\ GridRow(ClipFrame(ClipLen - 1)) > Clip.row
            /\ ~BoundsWarned
            /\ \A d \in diag : \/ d = Diag("warn", "frames", "clip", ClipLen)
                               \/ d.msg = "dimensions"
            /\ ClipLen >= 2 =>
                 /\ "clip" \in DOMAIN interpolationRanges
                 /\ \A k \in 0..(ClipLen - 1) : ClipRowIs(k, GridRow(ClipFrame(k)))

\* a development build has rendered, with the sheet's dimensions known, an
\* animation registered on frames 2 to 3 of row 0 of a 3 x 2 sheet: its
\* second frame is the first one of row 1
C28_Witness ==
  /\ DEV /\ request = "resolved" /\ imageDimensions = NaturalSize
  /\ props.columns = 3 /\ props.rows = 2
  /\ "clip" \in DOMAIN props.animations
  /\ Clip.row = 0 /\ Clip.startFrame = 2 /\ Clip.endFrame = 3
  /\ "clip" \in DOMAIN interpolationRanges
  /\ diag = {}

====
